---- MODULE Spec2Model ----
(***************************************************************************)
(* dashboards/scripts/index-refresh.py: one run of main().                 *)
(*                                                                         *)
(* The run is a straight line of HTTP requests with JSON reshaping in      *)
(* between.  pc is the position of main(); every request is one action     *)
(* whose outcome (no response, a response with a status code and a body)   *)
(* is chosen by the environment.  Field names are sequences of one-letter  *)
(* strings so that the regular expressions of lines 179-246 are computed   *)
(* on the characters.  The verbose flag only adds eprint() lines and is    *)
(* left out.                                                               *)
(***************************************************************************)
EXTENDS Integers, Sequences, FiniteSets, TLC

VARIABLES pc, index, template, dryrun, requests, statusInfo, dashboardsVersion,
          opensearchVersion, getIndexInfo, indexId, liveFields, getFieldsList,
          fieldsNames, getTemplateInfo, mergeRaised, fieldFormatMap,
          putIndexInfo, stdout, stderr, exitCode

vars == <<pc, index, template, dryrun, requests, statusInfo, dashboardsVersion,
          opensearchVersion, getIndexInfo, indexId, liveFields, getFieldsList,
          fieldsNames, getTemplateInfo, mergeRaised, fieldFormatMap,
          putIndexInfo, stdout, stderr, exitCode>>

(***************************************************************************)
(* Bounds of the model.                                                    *)
(***************************************************************************)
MaxLive == 2
MaxProps == 2
MaxObjects == 2
MaxFields == 1

(***************************************************************************)
(* Endpoints, lines 11-15, and the default URLs of lines 46-47.            *)
(***************************************************************************)
GET_STATUS_API == "api/status"
GET_INDEX_PATTERN_INFO_URI == "api/saved_objects/_find"
GET_FIELDS_URI == "api/index_patterns/_fields_for_wildcard"
PUT_INDEX_PATTERN_URI == "api/saved_objects/index-pattern"
OS_GET_TEMPLATE_URI == "_template"
dashboardsUrl == "http://dashboards:5601/dashboards"
opensearchUrl == "http://opensearch:9200"

None == "None"

(***************************************************************************)
(* Characters and strings.                                                 *)
(***************************************************************************)
LowerLetters == <<"a", "b", "c", "d", "e", "f", "g", "h", "i", "j", "k", "l", "m",
                  "n", "o", "p", "q", "r", "s", "t", "u", "v", "w", "x", "y", "z">>
UpperLetters == <<"A", "B", "C", "D", "E", "F", "G", "H", "I", "J", "K", "L", "M",
                  "N", "O", "P", "Q", "R", "S", "T", "U", "V", "W", "X", "Y", "Z">>
Digits == {"0", "1", "2", "3", "4", "5", "6", "7", "8", "9"}
Backspace == "\\x08"

Range(s) == {s[i] : i \in 1..Len(s)}

Letters == Range(LowerLetters) \cup Range(UpperLetters)

\* str.isalpha() of one character
isalpha(c) == c \in Letters

\* \w of the re module
IsWordChar(c) == isalpha(c) \/ c \in Digits \/ c = "_"

\* re.IGNORECASE: both sides are compared in lower case
lower(c) ==
  IF isalpha(c) /\ c \notin Range(LowerLetters)
  THEN LowerLetters[CHOOSE i \in 1..Len(UpperLetters) : UpperLetters[i] = c]
  ELSE c

LowerStr(s) == [i \in 1..Len(s) |-> lower(s[i])]

startswith(s, p) == Len(p) <= Len(s) /\ SubSeq(s, 1, Len(p)) = p

endswith(s, p) == Len(p) <= Len(s) /\ SubSeq(s, Len(s) - Len(p) + 1, Len(s)) = p

\* p occurs in s starting at position i
MatchAt(s, p, i) == i >= 1 /\ i + Len(p) - 1 <= Len(s) /\ SubSeq(s, i, i + Len(p) - 1) = p

Contains(s, p) == \E i \in 1..(Len(s) + 1) : MatchAt(s, p, i)

\* the suffix of s that starts at position i
Suffix(s, i) == SubSeq(s, i, Len(s))

(***************************************************************************)
(* The literals of the regular expressions.                                *)
(***************************************************************************)
w_h == <<"h">>
w_ip == <<"i", "p">>
w_md5 == <<"m", "d", "5">>
w_sha1 == <<"s", "h", "a", "1">>
w_sha256 == <<"s", "h", "a", "2", "5", "6">>
w_sha384 == <<"s", "h", "a", "3", "8", "4">>
w_sha512 == <<"s", "h", "a", "5", "1", "2">>
w_s == <<"s">>
w_hit == <<"h", "i", "t">>
w_hits == <<"h", "i", "t", "s">>
w_signatureid == <<"s", "i", "g", "n", "a", "t", "u", "r", "e", "i", "d">>
w_signatureids == <<"s", "i", "g", "n", "a", "t", "u", "r", "e", "i", "d", "s">>
w_signature_id == <<"s", "i", "g", "n", "a", "t", "u", "r", "e", "_", "i", "d">>
w_signature_ids == <<"s", "i", "g", "n", "a", "t", "u", "r", "e", "_", "i", "d", "s">>
w_p == <<"p">>
w_ps == <<"p", "s">>
w_port == <<"p", "o", "r", "t">>
w_ports == <<"p", "o", "r", "t", "s">>
w_src == <<"s", "r", "c">>
w_dst == <<"d", "s", "t">>
w_source == <<"s", "o", "u", "r", "c", "e">>
w_dest == <<"d", "e", "s", "t">>
w_destination == <<"d", "e", "s", "t", "i", "n", "a", "t", "i", "o", "n">>
w_protoco == <<"p", "r", "o", "t", "o", "c", "o">>
w_protocol == <<"p", "r", "o", "t", "o", "c", "o", "l">>
w_network_protocol == <<"n", "e", "t", "w", "o", "r", "k", ".", "p", "r", "o", "t", "o", "c", "o", "l">>
w_network_transport == <<"n", "e", "t", "w", "o", "r", "k", ".", "t", "r", "a", "n", "s", "p", "o", "r", "t">>
w_ipprotocol == <<"i", "p", "p", "r", "o", "t", "o", "c", "o", "l">>
w_as_number == <<"a", "s", ".", "n", "u", "m", "b", "e", "r">>
w_srcasn == <<"s", "r", "c", "a", "s", "n">>
w_dstasn == <<"d", "s", "t", "a", "s", "n">>
w_asn_src == <<"a", "s", "n", ".", "s", "r", "c">>
w_asn_dst == <<"a", "s", "n", ".", "d", "s", "t">>
w_mimetype == <<"m", "i", "m", "e", "t", "y", "p", "e">>
w_mime_type == <<"m", "i", "m", "e", "_", "t", "y", "p", "e">>
w_mime_dot_type == <<"m", "i", "m", "e", ".", "t", "y", "p", "e">>
w_mime_dash_type == <<"m", "i", "m", "e", "-", "t", "y", "p", "e">>
w_zeek_files_extracted == <<"z", "e", "e", "k", ".", "f", "i", "l", "e", "s", ".", "e", "x", "t", "r", "a", "c", "t", "e", "d">>
w_zeek == <<"z", "e", "e", "k">>

\* the character classes [_\.-] and [\b_\.-] (inside a class \b is backspace)
SepChars == {"_", ".", "-"}
SepCharsB == SepChars \cup {Backspace}

(***************************************************************************)
(* The name tests of the elif chain, each a re.search(..., re.IGNORECASE). *)
(***************************************************************************)
\* line 189: [_\.-](h|ip)$
IsIpHostName(name) ==
  LET s == LowerStr(name) IN
    \E w \in {w_h, w_ip} :
       /\ endswith(s, w)
       /\ Len(s) > Len(w)
       /\ s[Len(s) - Len(w)] \in SepChars

\* line 196: (^|[\b_\.-])(md5|sha(1|256|384|512))\b
IsHashName(name) ==
  LET s == LowerStr(name) IN
    \E i \in 1..Len(s) : \E w \in {w_md5, w_sha1, w_sha256, w_sha384, w_sha512} :
       /\ MatchAt(s, w, i)
       /\ (i = 1 \/ s[i - 1] \in SepCharsB)
       /\ (i + Len(w) > Len(s) \/ ~IsWordChar(s[i + Len(w)]))

\* line 203: (^|[\b_\.-])(hit|signature(_?id))?s?$
HitTails == {<<>>, w_s, w_hit, w_hits, w_signatureid, w_signatureids,
             w_signature_id, w_signature_ids}

IsHitName(name) ==
  LET s == LowerStr(name) IN
    \/ s \in HitTails
    \/ \E i \in 1..Len(s) : s[i] \in SepCharsB /\ Suffix(s, i + 1) \in HitTails

\* line 210: (^|src|dst|source|dest|destination|[\b_\.-])p(ort)?s?$
PortTails == {w_p, w_ps, w_port, w_ports}
PortHeads == {w_src, w_dst, w_source, w_dest, w_destination}

IsPortName(name) ==
  LET s == LowerStr(name) IN
    \E t \in PortTails :
       /\ endswith(s, t)
       /\ LET k == Len(s) - Len(t) IN  \* what precedes the tail is s[1..k]
            \/ k = 0
            \/ k > 0 /\ s[k] \in SepCharsB
            \/ \E h \in PortHeads : endswith(SubSeq(s, 1, k), h)

\* line 217: ^(protocol?|network\.protocol)$
IsServiceName(name) == LowerStr(name) \in {w_protoco, w_protocol, w_network_protocol}

\* line 224: ^(network\.transport|ipProtocol)$
IsProtocolNumberName(name) == LowerStr(name) \in {w_network_transport, w_ipprotocol}

\* line 231: (as\.number|(src|dst)ASN|asn\.(src|dst))$
IsAsnName(name) ==
  \E w \in {w_as_number, w_srcasn, w_dstasn, w_asn_src, w_asn_dst} :
     endswith(LowerStr(name), w)

\* line 238: mime[_\.-]?type
IsMimeTypeName(name) ==
  \E w \in {w_mimetype, w_mime_type, w_mime_dot_type, w_mime_dash_type} :
     Contains(LowerStr(name), w)

\* line 246: (^zeek\.files\.extracted$)
IsExtractedFileName(name) == LowerStr(name) = w_zeek_files_extracted

(***************************************************************************)
(* The url templates.  A url or label is the sequence of the pieces its    *)
(* format string joins; the None that opens every list is NoneTemplate.    *)
(***************************************************************************)
NoneTemplate == [url |-> <<>>, label |-> <<>>]

VirusTotalIpLink ==
  [url |-> <<"https://www.virustotal.com/en/ip-address/{{value}}/information/">>,
   label |-> <<"VirusTotal IP: {{value}}">>]
VirusTotalHashLink ==
  [url |-> <<"https://www.virustotal.com/gui/file/{{value}}/detection">>,
   label |-> <<"VirusTotal Hash: {{value}}">>]
WebSearchLink ==
  [url |-> <<"https://duckduckgo.com/?q=\"{{value}}\"">>,
   label |-> <<"Web Search: {{value}}">>]
PortRegistryLink ==
  [url |-> <<"https://www.iana.org/assignments/service-names-port-numbers/service-names-port-numbers.xhtml?search={{value}}">>,
   label |-> <<"Port Registry: {{value}}">>]
ServiceRegistryLink ==
  [url |-> <<"https://www.iana.org/assignments/service-names-port-numbers/service-names-port-numbers.xhtml?search={{value}}">>,
   label |-> <<"Service Registry: {{value}}">>]
ProtocolRegistryLink ==
  [url |-> <<"https://www.iana.org/assignments/protocol-numbers/protocol-numbers.xhtml">>,
   label |-> <<"Protocol Registry">>]
ArinAsnLink ==
  [url |-> <<"https://search.arin.net/rdap/?query={{value}}&searchFilter=asn">>,
   label |-> <<"ARIN ASN: {{value}}">>]
MediaTypeLink ==
  [url |-> <<"https://www.iana.org/assignments/media-types/{{value}}">>,
   label |-> <<"Media Type Registry: {{value}}">>]
QuarantinedLink ==
  [url |-> <<"/dl-extracted-files/quarantine/{{value}}">>,
   label |-> <<"Download (if quarantined)">>]
PreservedLink ==
  [url |-> <<"/dl-extracted-files/preserved/{{value}}">>,
   label |-> <<"Download (if preserved)">>]

\* lines 182-183
valQuote(field) == IF field.type = "string" THEN "\"" ELSE ""
valDbPrefix(field) == IF startswith(field.name, w_zeek) THEN "" ELSE "db:"

\* lines 184-186: the Arkime link every entry carries
ArkimeLink(field) ==
  [url |-> <<"/idkib2ark/", valDbPrefix(field), field.name, " == ",
             valQuote(field), "{{value}}", valQuote(field)>>,
   label |-> <<"Arkime ", field.name, ": ",
               valQuote(field), "{{value}}", valQuote(field)>>]

\* the chain with the hit/signature test ahead of the hash test
ChainLinks_HitBeforeHash(field) ==
  IF field.type = "ip" \/ IsIpHostName(field.name) THEN <<VirusTotalIpLink>>
  ELSE IF IsHitName(field.name) THEN <<WebSearchLink>>
  ELSE IF IsHashName(field.name) THEN <<VirusTotalHashLink>>
  ELSE IF IsPortName(field.name) THEN <<PortRegistryLink>>
  ELSE IF IsServiceName(field.name) THEN <<ServiceRegistryLink>>
  ELSE IF IsProtocolNumberName(field.name) THEN <<ProtocolRegistryLink>>
  ELSE IF IsAsnName(field.name) THEN <<ArinAsnLink>>
  ELSE IF IsMimeTypeName(field.name) THEN <<MediaTypeLink>>
  ELSE IF IsExtractedFileName(field.name) THEN <<QuarantinedLink, PreservedLink>>
  ELSE <<>>

\* the chain with 'if' in place of 'elif': every test that holds appends
ChainLinks_EveryMatch(field) ==
  (IF field.type = "ip" \/ IsIpHostName(field.name) THEN <<VirusTotalIpLink>> ELSE <<>>)
  \o (IF IsHashName(field.name) THEN <<VirusTotalHashLink>> ELSE <<>>)
  \o (IF IsHitName(field.name) THEN <<WebSearchLink>> ELSE <<>>)
  \o (IF IsPortName(field.name) THEN <<PortRegistryLink>> ELSE <<>>)
  \o (IF IsServiceName(field.name) THEN <<ServiceRegistryLink>> ELSE <<>>)
  \o (IF IsProtocolNumberName(field.name) THEN <<ProtocolRegistryLink>> ELSE <<>>)
  \o (IF IsAsnName(field.name) THEN <<ArinAsnLink>> ELSE <<>>)
  \o (IF IsMimeTypeName(field.name) THEN <<MediaTypeLink>> ELSE <<>>)
  \o (IF IsExtractedFileName(field.name) THEN <<QuarantinedLink, PreservedLink>> ELSE <<>>)

\* lines 189-255: the if/elif chain, the links it appends
ChainLinks(field) ==
  IF field.type = "ip" \/ IsIpHostName(field.name) THEN <<VirusTotalIpLink>>
  ELSE IF IsHashName(field.name) THEN <<VirusTotalHashLink>>
  ELSE IF IsHitName(field.name) THEN <<WebSearchLink>>
  ELSE IF IsPortName(field.name) THEN <<PortRegistryLink>>
  ELSE IF IsServiceName(field.name) THEN <<ServiceRegistryLink>>
  ELSE IF IsProtocolNumberName(field.name) THEN <<ProtocolRegistryLink>>
  ELSE IF IsAsnName(field.name) THEN <<ArinAsnLink>>
  ELSE IF IsMimeTypeName(field.name) THEN <<MediaTypeLink>>
  ELSE IF IsExtractedFileName(field.name) THEN <<QuarantinedLink, PreservedLink>>
  ELSE <<>>

\* lines 187-262
drilldownInfoParamsUrlTemplates(field) ==
  <<NoneTemplate, ArkimeLink(field)>> \o ChainLinks(field)

drilldownInfo(field) ==
  [id |-> "drilldown",
   params |-> [urlTemplates |-> drilldownInfoParamsUrlTemplates(field)]]

\* line 179: field['name'][:1].isalpha()
HasAlphaStart(name) == Len(name) > 0 /\ isalpha(name[1])

\* lines 177-264: the loop; a later field of the same name overwrites the entry
FormatMapOf(fields) ==
  LET idx == {i \in 1..Len(fields) : HasAlphaStart(fields[i].name)}
      last(n) == CHOOSE i \in idx : fields[i].name = n /\
                    \A j \in idx : fields[j].name = n => j <= i
  IN [n \in {fields[i].name : i \in idx} |-> drilldownInfo(fields[last(n)])]

(***************************************************************************)
(* Field names the environment answers with.                               *)
(***************************************************************************)
n_source_ip == <<"s", "o", "u", "r", "c", "e", ".", "i", "p">>
n_file_md5 == <<"f", "i", "l", "e", ".", "m", "d", "5">>
n_sha1_hits == <<"s", "h", "a", "1", ".", "h", "i", "t", "s">>
n_srcport == <<"s", "r", "c", "p", "o", "r", "t">>
n_mimetype_port == <<"m", "i", "m", "e", "t", "y", "p", "e", ".", "p", "o", "r", "t">>
n_zeek_uid == <<"z", "e", "e", "k", ".", "u", "i", "d">>
n_http_status_code == <<"h", "t", "t", "p", ".", "s", "t", "a", "t", "u", "s", "_", "c", "o", "d", "e">>

(***************************************************************************)
(* What the two services may answer.  A request either gets no response    *)
(* (requests raises ConnectionError; status_code 0 in the log) or a        *)
(* response with a status code and a JSON body.                            *)
(***************************************************************************)
StatusCodes == {200, 404}
NoResponse == [status_code |-> 0, body |-> [error |-> "no response"]]
ErrorBody == [error |-> "Not Found"]

\* a raise_for_status() that never raises
raise_for_status_Never(code) == FALSE

\* requests.Response.raise_for_status(): HTTPError for 4xx and 5xx
raise_for_status(code) == code >= 400 /\ code < 600

\* a field as api/index_patterns/_fields_for_wildcard lists it
LiveField(name, type, esType) ==
  [name |-> name, type |-> type, esTypes |-> <<esType>>, searchable |-> TRUE,
   aggregatable |-> esType # "text", readFromDocValues |-> esType # "text"]

\* sequences of at most n elements of the sequence pool, in the pool's order
RECURSIVE SubSeqsFrom(_, _, _)
SubSeqsFrom(pool, i, n) ==
  IF i > Len(pool) \/ n = 0 THEN {<<>>}
  ELSE SubSeqsFrom(pool, i + 1, n)
       \cup {<<pool[i]>> \o s : s \in SubSeqsFrom(pool, i + 1, n - 1)}

\* sequences of at most n elements of S
RECURSIVE BoundedSeqs(_, _)
BoundedSeqs(S, n) ==
  IF n = 0 THEN {<<>>}
  ELSE LET shorter == BoundedSeqs(S, n - 1) IN
         shorter \cup {Append(s, x) : s \in shorter, x \in S}

DistinctNames(s) == \A i, j \in 1..Len(s) : s[i].name = s[j].name => i = j

IndexNames == {"arkime_sessions3-*", "test-*"}
TemplateName == "malcolm_template"
Versions == {"2.0.0", "2.1.0"}
ObjectIds == {"abc123", "def456"}

StatusResponses ==
  {NoResponse}
  \cup {[status_code |-> 200, body |-> [version |-> [number |-> v]]] : v \in Versions}
  \cup {[status_code |-> c, body |-> ErrorBody] : c \in StatusCodes}

RootResponses ==
  {NoResponse} \cup {[status_code |-> c, body |-> ErrorBody] : c \in StatusCodes}

SavedObjectLists ==
  {s \in BoundedSeqs({[id |-> i] : i \in ObjectIds}, MaxObjects) :
     \A i, j \in 1..Len(s) : s[i] = s[j] => i = j}

FindResponses ==
  {NoResponse}
  \cup {[status_code |-> 200, body |-> [saved_objects |-> s]] : s \in SavedObjectLists}
  \cup {[status_code |-> c, body |-> ErrorBody] : c \in StatusCodes}

LivePool == <<LiveField(n_source_ip, "ip", "ip"),
              LiveField(n_file_md5, "string", "keyword"),
              LiveField(n_srcport, "number", "long")>>

LiveLists == SubSeqsFrom(LivePool, 1, MaxLive)

FieldsResponses ==
  {NoResponse}
  \cup {[status_code |-> 200, body |-> [fields |-> l]] : l \in LiveLists}
  \cup {[status_code |-> c, body |-> ErrorBody] : c \in StatusCodes}

\* a property of a template: a JSON object with or without a 'type' key
\* (type None), or a value that is no object (null)
Property(name, kind, type) == [name |-> name, value |-> [kind |-> kind, type |-> type]]

\* line 117
mergeFieldTypes == {"date", "float", "integer", "ip", "keyword", "long", "short", "text"}

TemplateFieldNames == {n_source_ip, n_http_status_code, n_zeek_uid}

NarrowValues == {<<"object", "long">>, <<"null", None>>}

WideValues ==
  {<<"object", t>> : t \in mergeFieldTypes \cup {"nested", None}}
  \cup {<<"null", None>>}

PropertyLists(values) ==
  {s \in BoundedSeqs({Property(n, v[1], v[2]) : n \in TemplateFieldNames, v \in values},
                     MaxProps) : DistinctNames(s)}

\* the body of GET _template/<name>: the templates it holds, each with its
\* mappings.properties in document order
TemplateResponses(values) ==
  {NoResponse}
  \cup {[status_code |-> 200,
         body |-> [templates |-> {TemplateName}, properties |-> p]] :
          p \in PropertyLists(values)}
  \cup {[status_code |-> 200, body |-> [templates |-> {}, properties |-> <<>>]]}
  \cup {[status_code |-> 404, body |-> ErrorBody]}

PutResponses ==
  {NoResponse} \cup {[status_code |-> c, body |-> ErrorBody] : c \in StatusCodes}

(***************************************************************************)
(* Template merge, lines 116-140.                                          *)
(***************************************************************************)
\* lines 126-135
SemanticType(esType) ==
  IF esType \in {"float", "integer", "long", "short"} THEN "number"
  ELSE IF esType \in {"keyword", "text"} THEN "string"
  ELSE esType

\* every merged field aggregatable
Aggregatable_Always(esTypes) == TRUE

\* line 137
Aggregatable(esTypes) == "text" \notin Range(esTypes)

\* lines 123-138
mergedFieldInfo(field, esType) ==
  [name |-> field, esTypes |-> <<esType>>, type |-> SemanticType(esType),
   searchable |-> TRUE, aggregatable |-> Aggregatable(<<esType>>),
   readFromDocValues |-> Aggregatable(<<esType>>)]

\* the merge without the test for a name already listed
NotListed_Always(field, names) == TRUE

\* line 118: field not in fieldsNames
NotListed(field, names) == field \notin Range(names)

\* lines 116-140: the loop from property i on.  'type' in <a value that is no
\* object> raises TypeError, and what was appended before it stays appended.
RECURSIVE MergeFrom(_, _, _, _)
MergeFrom(props, i, fields, names) ==
  IF i > Len(props) THEN [fields |-> fields, names |-> names, raised |-> None]
  ELSE LET field == props[i].name
           value == props[i].value
       IN IF ~NotListed(field, names) THEN MergeFrom(props, i + 1, fields, names)
          ELSE IF value.kind # "object"
          THEN [fields |-> fields, names |-> names, raised |-> "TypeError"]
          ELSE IF value.type # None /\ value.type \in mergeFieldTypes
          THEN MergeFrom(props, i + 1,
                         Append(fields, mergedFieldInfo(field, value.type)),
                         Append(names, field))
          ELSE MergeFrom(props, i + 1, fields, names)

\* lines 109-111 and the loop: the outcome of the try block for a response
TryMerge(resp, name, fields, names) ==
  IF resp.status_code = 0
  THEN [fields |-> fields, names |-> names, raised |-> "ConnectionError"]
  ELSE IF raise_for_status(resp.status_code)
  THEN [fields |-> fields, names |-> names, raised |-> "HTTPError"]
  ELSE IF "templates" \notin DOMAIN resp.body \/ name \notin resp.body.templates
  THEN [fields |-> fields, names |-> names, raised |-> "KeyError"]
  ELSE MergeFrom(resp.body.properties, 1, fields, names)

(***************************************************************************)
(* Messages.                                                               *)
(***************************************************************************)
\* line 288
FailureMessage(name) == "failure (could not find Index ID for " \o name \o ")"
\* line 283
DryRunMessage == "success (dry run only, no write performed)"
\* line 285
SuccessMessage == "success"
\* line 146
SkipMessage(e, name) ==
  "\"" \o e \o "\" raised for \"" \o name \o "\", skipping template merge"

(***************************************************************************)
(* The run.                                                                *)
(***************************************************************************)
Request(method, url, version, data, resp) ==
  [method |-> method, url |-> url, osd_version |-> version, data |-> data,
   status_code |-> resp.status_code]

NoData == [attributes |-> <<>>]

\* a name main() has not assigned yet
Unset == [unset |-> TRUE]

Get(url, resp) == Request("GET", url, None, NoData, resp)

\* an uncaught exception: traceback on stderr, non-zero exit, nothing printed
Raise(e) ==
  /\ pc' = "crashed"
  /\ stderr' = Append(stderr, e)
  /\ exitCode' = 1

Init ==
  /\ pc = "status"
  /\ index \in IndexNames
  /\ template \in {None, TemplateName}
  /\ dryrun \in BOOLEAN
  /\ requests = <<>>
  /\ statusInfo = Unset
  /\ dashboardsVersion = None
  /\ opensearchVersion = None
  /\ getIndexInfo = Unset
  /\ indexId = None
  /\ liveFields = Unset
  /\ getFieldsList = <<>>
  /\ fieldsNames = <<>>
  /\ getTemplateInfo = <<>>
  /\ mergeRaised = None
  /\ fieldFormatMap = <<>>
  /\ putIndexInfo = NoData
  /\ stdout = <<>>
  /\ stderr = <<>>
  /\ exitCode = None

\* lines 66-69
GetStatus ==
  /\ pc = "status"
  /\ \E resp \in StatusResponses :
       /\ requests' = Append(requests, Get(dashboardsUrl \o "/" \o GET_STATUS_API, resp))
       /\ IF resp.status_code = 0 THEN
            Raise("ConnectionError") /\ UNCHANGED <<statusInfo, dashboardsVersion>>
          ELSE IF raise_for_status(resp.status_code) THEN
            Raise("HTTPError") /\ UNCHANGED <<statusInfo, dashboardsVersion>>
          ELSE IF "version" \notin DOMAIN resp.body THEN
            Raise("KeyError") /\ statusInfo' = resp.body /\ UNCHANGED dashboardsVersion
          ELSE
            /\ statusInfo' = resp.body
            /\ dashboardsVersion' = resp.body.version.number
            /\ pc' = "opensearch"
            /\ UNCHANGED <<stderr, exitCode>>
  /\ UNCHANGED <<index, template, dryrun, opensearchVersion, getIndexInfo, indexId,
                 liveFields, getFieldsList, fieldsNames, getTemplateInfo, mergeRaised,
                 fieldFormatMap, putIndexInfo, stdout>>

\* lines 73-75: the response is not examined; the version is read again from
\* the status response
GetOpenSearchInfo ==
  /\ pc = "opensearch"
  /\ \E resp \in RootResponses :
       /\ requests' = Append(requests, Get(opensearchUrl, resp))
       /\ IF resp.status_code = 0 THEN
            Raise("ConnectionError") /\ UNCHANGED opensearchVersion
          ELSE
            /\ opensearchVersion' = statusInfo.version.number
            /\ pc' = "find"
            /\ UNCHANGED <<stderr, exitCode>>
  /\ UNCHANGED <<index, template, dryrun, statusInfo, dashboardsVersion, getIndexInfo, indexId,
                 liveFields, getFieldsList, fieldsNames, getTemplateInfo, mergeRaised,
                 fieldFormatMap, putIndexInfo, stdout>>

\* line 90
IndexIdOf(savedObjects) ==
  IF Len(savedObjects) > 0 THEN savedObjects[1].id ELSE None

\* the run going on without an index id
Found_Always(id) == TRUE

\* line 94
Found(id) == id # None

\* lines 80-94 and 287-288
FindIndexPattern ==
  /\ pc = "find"
  /\ \E resp \in FindResponses :
       /\ requests' = Append(requests,
                             Get(dashboardsUrl \o "/" \o GET_INDEX_PATTERN_INFO_URI, resp))
       /\ IF resp.status_code = 0 THEN
            Raise("ConnectionError") /\ UNCHANGED <<getIndexInfo, indexId, stdout>>
          ELSE IF raise_for_status(resp.status_code) THEN
            Raise("HTTPError") /\ UNCHANGED <<getIndexInfo, indexId, stdout>>
          ELSE IF "saved_objects" \notin DOMAIN resp.body THEN
            Raise("KeyError") /\ getIndexInfo' = resp.body /\ UNCHANGED <<indexId, stdout>>
          ELSE
            /\ getIndexInfo' = resp.body
            /\ indexId' = IndexIdOf(resp.body.saved_objects)
            /\ IF Found(indexId')
               THEN pc' = "fields" /\ UNCHANGED <<stdout, exitCode>>
               ELSE /\ stdout' = Append(stdout, FailureMessage(index))
                    /\ pc' = "done"
                    /\ exitCode' = 0
            /\ UNCHANGED stderr
  /\ UNCHANGED <<index, template, dryrun, statusInfo, dashboardsVersion, opensearchVersion,
                 liveFields, getFieldsList, fieldsNames, getTemplateInfo, mergeRaised,
                 fieldFormatMap, putIndexInfo>>

\* line 102
NamesOf(fields) == [i \in 1..Len(fields) |-> fields[i].name]

\* lines 97-105
GetFields ==
  /\ pc = "fields"
  /\ \E resp \in FieldsResponses :
       /\ requests' = Append(requests, Get(dashboardsUrl \o "/" \o GET_FIELDS_URI, resp))
       /\ IF resp.status_code = 0 THEN
            Raise("ConnectionError") /\ UNCHANGED <<liveFields, getFieldsList, fieldsNames>>
          ELSE IF raise_for_status(resp.status_code) THEN
            Raise("HTTPError") /\ UNCHANGED <<liveFields, getFieldsList, fieldsNames>>
          ELSE IF "fields" \notin DOMAIN resp.body THEN
            Raise("KeyError") /\ UNCHANGED <<liveFields, getFieldsList, fieldsNames>>
          ELSE
            /\ liveFields' = resp.body
            /\ getFieldsList' = resp.body.fields
            /\ fieldsNames' = NamesOf(resp.body.fields)
            /\ pc' = IF template # None THEN "template" ELSE "classify"
            /\ UNCHANGED <<stderr, exitCode>>
  /\ UNCHANGED <<index, template, dryrun, statusInfo, dashboardsVersion, opensearchVersion,
                 getIndexInfo, indexId, getTemplateInfo, mergeRaised, fieldFormatMap,
                 putIndexInfo, stdout>>

\* the template error left uncaught
AfterExcept_Abort == "crashed"

\* lines 145-146: where the run goes on after the except clause
AfterExcept == "classify"

\* lines 105-146, for the answers the data store may give
GetTemplate(responses) ==
  /\ pc = "template"
  /\ \E resp \in responses :
       LET m == TryMerge(resp, template, getFieldsList, fieldsNames) IN
         /\ requests' = Append(requests,
                               Get(opensearchUrl \o "/" \o OS_GET_TEMPLATE_URI \o "/" \o template,
                                   resp))
         /\ getTemplateInfo' = IF "properties" \in DOMAIN resp.body
                               THEN resp.body.properties ELSE <<>>
         /\ getFieldsList' = m.fields
         /\ fieldsNames' = m.names
         /\ mergeRaised' = m.raised
         /\ IF m.raised # None
            THEN /\ stderr' = Append(stderr, SkipMessage(m.raised, template))
                 /\ pc' = AfterExcept
                 /\ exitCode' = IF AfterExcept = "crashed" THEN 1 ELSE exitCode
            ELSE /\ pc' = "classify"
                 /\ UNCHANGED <<stderr, exitCode>>
  /\ UNCHANGED <<index, template, dryrun, statusInfo, dashboardsVersion, opensearchVersion,
                 getIndexInfo, indexId, liveFields, fieldFormatMap, putIndexInfo, stdout>>

NarrowTemplateResponses == TemplateResponses(NarrowValues)

TemplateStep == GetTemplate(NarrowTemplateResponses)

\* json.dumps: the text of a value
json_dumps(v) == [json |-> v]

\* lines 177-271
Classify ==
  /\ pc = "classify"
  /\ fieldFormatMap' = FormatMapOf(getFieldsList)
  /\ putIndexInfo' = [attributes |->
                        [title |-> index,
                         fields |-> json_dumps(getFieldsList),
                         fieldFormatMap |-> json_dumps(fieldFormatMap')]]
  /\ pc' = "write"
  /\ UNCHANGED <<index, template, dryrun, requests, statusInfo, dashboardsVersion,
                 opensearchVersion, getIndexInfo, indexId, liveFields, getFieldsList,
                 fieldsNames, getTemplateInfo, mergeRaised, stdout, stderr, exitCode>>

\* the PUT sent whatever the flag
ShouldPut_Always(dry) == TRUE

\* line 273
ShouldPut(dry) == ~dry

\* lines 274-278
PutRequest(resp) ==
  Request("PUT", dashboardsUrl \o "/" \o PUT_INDEX_PATTERN_URI \o "/" \o indexId,
          dashboardsVersion, json_dumps(putIndexInfo), resp)

\* the PUT sent again when it fails
PutIndexPattern_Retry ==
  /\ pc = "write"
  /\ ShouldPut(dryrun)
  /\ \E resp \in PutResponses :
       /\ requests' = Append(requests, PutRequest(resp))
       /\ IF resp.status_code = 0 \/ raise_for_status(resp.status_code) THEN
            UNCHANGED <<pc, stdout, stderr, exitCode>>
          ELSE
            /\ stdout' = Append(stdout, IF dryrun THEN DryRunMessage ELSE SuccessMessage)
            /\ pc' = "done"
            /\ exitCode' = 0
            /\ UNCHANGED stderr
  /\ UNCHANGED <<index, template, dryrun, statusInfo, dashboardsVersion, opensearchVersion,
                 getIndexInfo, indexId, liveFields, getFieldsList, fieldsNames,
                 getTemplateInfo, mergeRaised, fieldFormatMap, putIndexInfo>>

\* lines 273-285, not a dry run
PutIndexPattern ==
  /\ pc = "write"
  /\ ShouldPut(dryrun)
  /\ \E resp \in PutResponses :
       /\ requests' = Append(requests, PutRequest(resp))
       /\ IF resp.status_code = 0 THEN
            Raise("ConnectionError") /\ UNCHANGED stdout
          ELSE IF raise_for_status(resp.status_code) THEN
            Raise("HTTPError") /\ UNCHANGED stdout
          ELSE
            /\ stdout' = Append(stdout, IF dryrun THEN DryRunMessage ELSE SuccessMessage)
            /\ pc' = "done"
            /\ exitCode' = 0
            /\ UNCHANGED stderr
  /\ UNCHANGED <<index, template, dryrun, statusInfo, dashboardsVersion, opensearchVersion,
                 getIndexInfo, indexId, liveFields, getFieldsList, fieldsNames,
                 getTemplateInfo, mergeRaised, fieldFormatMap, putIndexInfo>>

\* lines 273 and 282-285, a dry run
SkipPut ==
  /\ pc = "write"
  /\ ~ShouldPut(dryrun)
  /\ stdout' = Append(stdout, IF dryrun THEN DryRunMessage ELSE SuccessMessage)
  /\ pc' = "done"
  /\ exitCode' = 0
  /\ UNCHANGED <<index, template, dryrun, requests, statusInfo, dashboardsVersion,
                 opensearchVersion, getIndexInfo, indexId, liveFields, getFieldsList,
                 fieldsNames, getTemplateInfo, mergeRaised, fieldFormatMap,
                 putIndexInfo, stderr>>

Next ==
  \/ GetStatus
  \/ GetOpenSearchInfo
  \/ FindIndexPattern
  \/ GetFields
  \/ TemplateStep
  \/ Classify
  \/ PutIndexPattern
  \/ SkipPut

Spec == Init /\ [][Next]_vars

(***************************************************************************)
(* The classification alone: the run stands before line 177 with a field   *)
(* list drawn from a wide set of names and types.                          *)
(***************************************************************************)
ClassifyNames ==
  {
   n_source_ip,
   <<"d", "s", "t", "_", "h">>,
   n_file_md5,
   <<"m", "d", "5", ".", "i", "p">>,
   <<"_", "m", "d", "5">>,
   <<"S", "H", "A", "2", "5", "6">>,
   <<"m", "d", "5", "_", "h", "a", "s", "h">>,
   n_sha1_hits,
   <<"h", "i", "t", "s">>,
   <<"s", "i", "g", "n", "a", "t", "u", "r", "e">>,
   <<"s", "i", "g", "n", "a", "t", "u", "r", "e", "_", "i", "d">>,
   n_srcport,
   <<"p">>,
   <<"p", "r", "o", "t", "o", "c", "o", "l">>,
   <<"n", "e", "t", "w", "o", "r", "k", ".", "p", "r", "o", "t", "o", "c", "o", "l">>,
   <<"n", "e", "t", "w", "o", "r", "k", ".", "t", "r", "a", "n", "s", "p", "o", "r", "t">>,
   <<"i", "p", "P", "r", "o", "t", "o", "c", "o", "l">>,
   <<"s", "r", "c", "A", "S", "N">>,
   <<"a", "s", ".", "n", "u", "m", "b", "e", "r">>,
   <<"m", "i", "m", "e", "_", "t", "y", "p", "e">>,
   n_mimetype_port,
   <<"z", "e", "e", "k", ".", "f", "i", "l", "e", "s", ".", "e", "x", "t", "r", "a", "c", "t", "e", "d">>,
   n_zeek_uid,
   <<"9", "l", "i", "v", "e", "s">>,
   <<"s", "h", "a", "5", "1", "2", ".", "a", "s", "n", ".", "s", "r", "c">>,
   <<"f", "l", "a", "g", "_">>,
   n_http_status_code,
   <<"e", "v", "e", "n", "t", ".", "d", "a", "t", "a", "s", "e", "t">>
  }

ClassifyPool ==
  {LiveField(n, t[1], t[2]) :
     n \in ClassifyNames,
     t \in {<<"string", "keyword">>, <<"number", "long">>, <<"ip", "ip">>}}

ClassifyLists == {s \in BoundedSeqs(ClassifyPool, MaxFields) : DistinctNames(s)}

OkResponse == [status_code |-> 200, body |-> ErrorBody]

\* the log of a run whose first four requests succeeded
FetchedLog ==
  <<Get(dashboardsUrl \o "/" \o GET_STATUS_API, OkResponse),
    Get(opensearchUrl, OkResponse),
    Get(dashboardsUrl \o "/" \o GET_INDEX_PATTERN_INFO_URI, OkResponse),
    Get(dashboardsUrl \o "/" \o GET_FIELDS_URI, OkResponse)>>

InitFetched(lists) ==
  /\ index \in IndexNames
  /\ dryrun \in BOOLEAN
  /\ requests = FetchedLog
  /\ statusInfo = [version |-> [number |-> "2.0.0"]]
  /\ dashboardsVersion = "2.0.0"
  /\ opensearchVersion = "2.0.0"
  /\ getIndexInfo = [saved_objects |-> <<[id |-> "abc123"]>>]
  /\ indexId = "abc123"
  /\ \E l \in lists :
       /\ liveFields = [fields |-> l]
       /\ getFieldsList = l
       /\ fieldsNames = NamesOf(l)
  /\ getTemplateInfo = <<>>
  /\ mergeRaised = None
  /\ fieldFormatMap = <<>>
  /\ putIndexInfo = NoData
  /\ stdout = <<>>
  /\ stderr = <<>>
  /\ exitCode = None

InitClassify ==
  /\ pc = "classify"
  /\ template = None
  /\ InitFetched(ClassifyLists)

SpecClassify == InitClassify /\ [][Classify]_vars

(***************************************************************************)
(* The template merge alone: the run stands before line 105 with a         *)
(* template name, and the template holds properties of every kind.         *)
(***************************************************************************)
InitMerge ==
  /\ pc = "template"
  /\ template = TemplateName
  /\ InitFetched(LiveLists)

WideTemplateResponses == TemplateResponses(WideValues)

MergeStep == GetTemplate(WideTemplateResponses)

SpecMerge == InitMerge /\ [][MergeStep]_vars

(***************************************************************************)
(* Properties.                                                             *)
(***************************************************************************)
UrlOf(base, uri) == base \o "/" \o uri
Last(s) == s[Len(s)]
Sent(url) == \E i \in 1..Len(requests) : requests[i].url = url
Puts == {i \in 1..Len(requests) : requests[i].method = "PUT"}
TemplateUrl == UrlOf(UrlOf(opensearchUrl, OS_GET_TEMPLATE_URI), TemplateName)

\* the lookup answered with an empty list of saved objects
ZeroSavedObjects ==
  /\ "saved_objects" \in DOMAIN getIndexInfo
  /\ Len(getIndexInfo.saved_objects) = 0

\* C1: when the lookup finds no saved object the run prints the failure
\* message with the index name in it, ends normally, and sends no field-list,
\* template or write request after the lookup.
C1_NotFoundReported ==
  ZeroSavedObjects =>
    /\ pc = "done"
    /\ exitCode = 0
    /\ stdout = <<"failure (could not find Index ID for " \o index \o ")">>
    /\ Last(requests).url = UrlOf(dashboardsUrl, GET_INDEX_PATTERN_INFO_URI)
    /\ ~Sent(UrlOf(dashboardsUrl, GET_FIELDS_URI))
    /\ ~Sent(TemplateUrl)
    /\ Puts = {}

C1_Witness ==
  /\ ZeroSavedObjects
  /\ pc = "done"
  /\ index = "test-*"
  /\ stdout = <<"failure (could not find Index ID for test-*)">>

\* the live field list has been fetched
Fetched == "fields" \in DOMAIN liveFields

AlphaNames(fields) ==
  {fields[i].name : i \in {j \in 1..Len(fields) : HasAlphaStart(fields[j].name)}}

C3_FailedMergeAddsNothing ==
  mergeRaised # None => getFieldsList = liveFields.fields

\* C4: an error of the template step never ends the run: it goes on to the
\* classification and the write (or the dry-run report) and prints the
\* success message unless the write itself fails.
C4_TemplateErrorContinues ==
  mergeRaised # None =>
    /\ pc \in {"classify", "write", "done", "crashed"}
    /\ pc = "crashed" => Last(requests).method = "PUT" /\ Last(requests).status_code # 200
    /\ pc \in {"write", "done"} => DOMAIN fieldFormatMap = AlphaNames(getFieldsList)
    /\ pc = "done" =>
         /\ exitCode = 0
         /\ stdout = <<IF dryrun THEN "success (dry run only, no write performed)"
                       ELSE "success">>
         /\ ~dryrun => Last(requests).method = "PUT" /\ Last(requests).status_code = 200

C4_Witness ==
  /\ mergeRaised = "TypeError"
  /\ pc = "done"
  /\ ~dryrun
  /\ stdout = <<"success">>

Entry(field) == fieldFormatMap[field.name].params.urlTemplates

Classified == pc = "write"

\* C5 as the spec states it: every field whose name matches the hash pattern
\* and not the IP/host pattern has an entry with the Arkime link and the
\* hash link, whatever its type.
C5_HashEntryAnyType ==
  Classified =>
    \A i \in 1..Len(getFieldsList) :
      LET field == getFieldsList[i] IN
        IsHashName(field.name) /\ ~IsIpHostName(field.name) =>
          /\ field.name \in DOMAIN fieldFormatMap
          /\ Entry(field) = <<NoneTemplate, ArkimeLink(field), VirusTotalHashLink>>

\* C5, amended: every field whose name begins with a letter and matches the
\* hash pattern and not the IP/host pattern, and whose type is not 'ip', has
\* an entry with exactly the Arkime link and the hash link.
C5_HashEntry ==
  Classified =>
    \A i \in 1..Len(getFieldsList) :
      LET field == getFieldsList[i] IN
        /\ HasAlphaStart(field.name)
        /\ field.type # "ip"
        /\ IsHashName(field.name)
        /\ ~IsIpHostName(field.name)
        => /\ field.name \in DOMAIN fieldFormatMap
           /\ Entry(field) = <<NoneTemplate, ArkimeLink(field), VirusTotalHashLink>>

C5_Witness ==
  /\ Classified
  /\ \E i \in 1..Len(getFieldsList) :
       /\ getFieldsList[i].name = n_sha1_hits
       /\ getFieldsList[i].type = "string"
       /\ IsHitName(getFieldsList[i].name)
       /\ Entry(getFieldsList[i])[3] = VirusTotalHashLink

\* C6 as the spec states it: at most five requests in a run.
C6_AtMostFive == Len(requests) <= 5

\* C6, amended: at most six requests in a run (status, data-store root,
\* pattern lookup, field list, template, write).
C6_AtMostSix == Len(requests) <= 6

C6_Witness ==
  /\ pc = "done"
  /\ Len(requests) = 6
  /\ requests[2].url = opensearchUrl
  /\ requests[5].url = TemplateUrl
  /\ requests[6].method = "PUT"

\* the categories in the order of the spec, their predicates and their links
CategoryHolds(k, field) ==
  CASE k = 1 -> field.type = "ip" \/ IsIpHostName(field.name)
    [] k = 2 -> IsHashName(field.name)
    [] k = 3 -> IsHitName(field.name)
    [] k = 4 -> IsPortName(field.name)
    [] k = 5 -> IsServiceName(field.name)
    [] k = 6 -> IsProtocolNumberName(field.name)
    [] k = 7 -> IsAsnName(field.name)
    [] k = 8 -> IsMimeTypeName(field.name)
    [] k = 9 -> IsExtractedFileName(field.name)

CategoryLinks(k) ==
  CASE k = 0 -> <<>>
    [] k = 1 -> <<VirusTotalIpLink>>
    [] k = 2 -> <<VirusTotalHashLink>>
    [] k = 3 -> <<WebSearchLink>>
    [] k = 4 -> <<PortRegistryLink>>
    [] k = 5 -> <<ServiceRegistryLink>>
    [] k = 6 -> <<ProtocolRegistryLink>>
    [] k = 7 -> <<ArinAsnLink>>
    [] k = 8 -> <<MediaTypeLink>>
    [] k = 9 -> <<QuarantinedLink, PreservedLink>>

Categories == 1..9

FirstCategory(field) ==
  LET holds == {k \in Categories : CategoryHolds(k, field)} IN
    IF holds = {} THEN 0 ELSE CHOOSE k \in holds : \A m \in holds : k <= m

CategoriesIn(links) ==
  {k \in Categories : \E j \in 1..Len(links) : links[j] \in Range(CategoryLinks(k))}

\* C7: the entry of a field whose name begins with a letter is the
\* placeholder, the Arkime link and the links of the first category, in the
\* fixed order, that the field satisfies; no entry holds links of two
\* categories.
C7_FirstCategoryOnly ==
  Classified =>
    \A i \in 1..Len(getFieldsList) :
      LET field == getFieldsList[i] IN
        HasAlphaStart(field.name) =>
          /\ field.name \in DOMAIN fieldFormatMap
          /\ fieldFormatMap[field.name].id = "drilldown"
          /\ Entry(field) = <<NoneTemplate, ArkimeLink(field)>>
                              \o CategoryLinks(FirstCategory(field))
          /\ Cardinality(CategoriesIn(Entry(field))) <= 1

C7_Witness ==
  /\ Classified
  /\ \E i \in 1..Len(getFieldsList) :
       LET field == getFieldsList[i] IN
         /\ field.name = n_mimetype_port
         /\ field.type = "number"
         /\ Cardinality({k \in Categories : CategoryHolds(k, field)}) = 2
         /\ Entry(field)[3] = PortRegistryLink

Merged == pc = "classify" /\ template # None

Live == liveFields.fields
Added == SubSeq(getFieldsList, Len(Live) + 1, Len(getFieldsList))
AllowListed == {"date", "float", "integer", "ip", "keyword", "long", "short", "text"}

Declared(name) ==
  {getTemplateInfo[i].value.type :
     i \in {j \in 1..Len(getTemplateInfo) :
              getTemplateInfo[j].name = name /\ getTemplateInfo[j].value.kind = "object"}}

\* C8: after the merge the field list is the live list, unchanged, followed
\* by new entries whose names are pairwise distinct, are no live names, and
\* are template fields of an allow-listed type.
C8_MergeIsDisjointAddition ==
  Merged =>
    /\ Len(getFieldsList) >= Len(Live)
    /\ SubSeq(getFieldsList, 1, Len(Live)) = Live
    /\ DistinctNames(Added)
    /\ \A i \in 1..Len(Added) :
         /\ Added[i].name \notin Range(NamesOf(Live))
         /\ Declared(Added[i].name) \cap AllowListed # {}

C8_Witness ==
  /\ Merged
  /\ Len(Live) > 0
  /\ Len(Added) > 0
  /\ \E i \in 1..Len(getTemplateInfo) :
       /\ getTemplateInfo[i].name \in Range(NamesOf(Live))
       /\ getTemplateInfo[i].value.type \in AllowListed

\* C9: a field made from a template entry has type 'number' for
\* float/integer/long/short, 'string' for keyword/text and the declared type
\* for date/ip; it is searchable; it is aggregatable unless the declared type
\* is text; readFromDocValues equals aggregatable.
C9_SynthesizedDescriptor ==
  Merged =>
    \A i \in 1..Len(Added) :
      LET f == Added[i] IN
        \E t \in Declared(f.name) :
          /\ f.esTypes = <<t>>
          /\ t \in {"float", "integer", "long", "short"} => f.type = "number"
          /\ t \in {"keyword", "text"} => f.type = "string"
          /\ t \in {"date", "ip"} => f.type = t
          /\ f.searchable = TRUE
          /\ f.aggregatable = (t # "text")
          /\ f.readFromDocValues = f.aggregatable

C9_Witness ==
  /\ Merged
  /\ Len(Added) = 2
  /\ Added[1].esTypes = <<"text">> /\ Added[1].type = "string" /\ ~Added[1].aggregatable
  /\ Added[2].esTypes = <<"date">> /\ Added[2].type = "date" /\ Added[2].aggregatable

Checked ==
  {UrlOf(dashboardsUrl, GET_STATUS_API),
   UrlOf(dashboardsUrl, GET_INDEX_PATTERN_INFO_URI),
   UrlOf(dashboardsUrl, GET_FIELDS_URI)}

\* C10: the PUT is sent at most once, after the status, lookup and field-list
\* requests succeeded in that order, to the id of the first saved object and
\* with the version of the status response; a status, lookup, field-list or
\* PUT request that fails is the last request, no request is sent twice, and
\* no success message follows a failure.
C10_WriteOnceAfterSuccess ==
  /\ Cardinality(Puts) <= 1
  /\ \A k \in Puts :
       /\ k >= 4
       /\ \E a, b, c \in 1..(k - 1) :
            /\ a < b /\ b < c
            /\ requests[a].url = UrlOf(dashboardsUrl, GET_STATUS_API)
            /\ requests[b].url = UrlOf(dashboardsUrl, GET_INDEX_PATTERN_INFO_URI)
            /\ requests[c].url = UrlOf(dashboardsUrl, GET_FIELDS_URI)
            /\ \A i \in {a, b, c} : requests[i].status_code = 200
       /\ requests[k].url =
            UrlOf(UrlOf(dashboardsUrl, PUT_INDEX_PATTERN_URI),
                  getIndexInfo.saved_objects[1].id)
       /\ requests[k].osd_version = statusInfo.version.number
  /\ \A i \in 1..Len(requests) :
       (requests[i].url \in Checked \/ i \in Puts) /\ requests[i].status_code # 200 =>
         /\ i = Len(requests)
         /\ stdout = <<>>
         /\ pc = "crashed"
  /\ \A i, j \in 1..Len(requests) : requests[i].url = requests[j].url => i = j

C10_Witness ==
  /\ pc = "done"
  /\ Puts = {5}
  /\ Len(getIndexInfo.saved_objects) = 2
  /\ requests[5].url = UrlOf(UrlOf(dashboardsUrl, PUT_INDEX_PATTERN_URI), "def456")
  /\ requests[5].osd_version = "2.1.0"
  /\ stdout = <<"success">>
====
